---- MODULE Spec2Model ----
(***************************************************************************)
(* The hierarchical test-result model of lode: a Test node (the class      *)
(* Test of src/unnamed/part_001) that is built from, and debriefed with,   *)
(* result fragments coming from a reporter or from the store.              *)
(*                                                                         *)
(* Test extends Nugget, and the file that defines Nugget is not among the  *)
(* sources at hand; the operators that stand for its methods               *)
(* (getRecursiveStatus, updateStatus, findTest, debriefTests, parseStatus) *)
(* follow sections 4.2 and 4.3 of the specification and are marked so.     *)
(***************************************************************************)
EXTENDS Integers, Sequences, FiniteSets, TLC

\* ------------------------------------------------------------------------
\* Bounds of the model
\* ------------------------------------------------------------------------

\* The clock runs from 1 to MaxTime.
MaxTime == 2

\* Longest list of child results in an incoming fragment.
MaxTests == 2

\* Number of build / debrief calls made on the root after its construction.
MaxOps == 2

\* ------------------------------------------------------------------------
\* Values
\* ------------------------------------------------------------------------

\* `undefined` for an id, a status and a timestamp.  A timestamp is an ISO
\* string in the code; here it is the clock value, and 0 is the absent
\* (and falsy) one.
NoId == "undefined"
NoStatus == "undefined"
NoTime == 0

\* Status precedence, highest first (specification, section 4.3).
Precedence ==
    <<"error", "failed", "warning", "incomplete", "passed",
      "running", "queued", "idle", "empty">>

Statuses == {Precedence[i] : i \in DOMAIN Precedence}

\* An ITestResult.  `object` is FALSE for an entry that is no object at all
\* (null in the reporter's JSON); first and last are stats.first, stats.last.
Frag(id, status, first, tests) ==
    [object |-> TRUE, id |-> id, status |-> status,
     first |-> first, last |-> NoTime, tests |-> tests]

Null ==
    [object |-> FALSE, id |-> NoId, status |-> NoStatus,
     first |-> NoTime, last |-> NoTime, tests |-> <<>>]

\* A Test before its constructor has run build: no result, no status.
Blank ==
    [result |-> Null, status |-> NoStatus, selected |-> FALSE,
     expanded |-> FALSE, partial |-> FALSE, tests |-> <<>>]

\* ------------------------------------------------------------------------
\* Helpers on sequences
\* ------------------------------------------------------------------------

SeqsUpTo(n, S) == UNION {[1..k -> S] : k \in 0..n}

\* ------------------------------------------------------------------------
\* Nugget (modelled from the specification)
\* ------------------------------------------------------------------------

\* An absent status counts as idle (build: result.status || 'idle').
OrIdle(status) == IF status = NoStatus THEN "idle" ELSE status

\* The highest-precedence status among a list of statuses; `empty` for none.
parseStatus_first(statuses) ==
    IF statuses = <<>> THEN "empty" ELSE OrIdle(statuses[1])

parseStatus(statuses) ==
    LET present == {OrIdle(statuses[i]) : i \in DOMAIN statuses}
        hits == {i \in DOMAIN Precedence : Precedence[i] \in present}
    IN  IF hits = {} THEN "empty"
        ELSE Precedence[CHOOSE i \in hits : \A j \in hits : i <= j]

\* Reading a result throws a TypeError when the result, or a result nested
\* in it, is not an object.
RECURSIVE Throws(_)
Throws(result) ==
    \/ ~result.object
    \/ \E i \in DOMAIN result.tests : Throws(result.tests[i])

\* The status of a result: its own when it has no nested results, otherwise
\* the aggregate of the nested ones.
RECURSIVE getRecursiveStatus(_)
getRecursiveStatus(result) ==
    IF result.tests = <<>>
    THEN result.status
    ELSE parseStatus([i \in DOMAIN result.tests |->
                        getRecursiveStatus(result.tests[i])])

updateStatus(this, to) == [this EXCEPT !.status = to]

\* ------------------------------------------------------------------------
\* Test
\* ------------------------------------------------------------------------

getId(this) == this.result.id

getStatus(this) == this.status

\* Index of the first child with the given id, 0 when there is none.
findTest(tests, id) ==
    LET hits == {i \in DOMAIN tests : getId(tests[i]) = id}
    IN  IF hits = {} THEN 0 ELSE CHOOSE i \in hits : \A j \in hits : i <= j

mergeResults_existingOnly(this, result, now) ==
    [result EXCEPT !.first =
        IF this.result.first # NoTime THEN this.result.first ELSE now]

mergeResults_stampNow(this, result, now) ==
    IF result.first # NoTime
    THEN result
    ELSE [result EXCEPT !.first = now]

mergeResults(this, result, now) ==
    IF result.first # NoTime
    THEN result
    ELSE [result EXCEPT !.first =
            IF this.result.first # NoTime THEN this.result.first ELSE now]

RECURSIVE build(_, _, _, _)
RECURSIVE debriefTests(_, _, _, _)
RECURSIVE mergeTests(_, _, _, _, _)

newTest_blank(result, now) ==
    build(Blank, Frag(NoId, NoStatus, NoTime, <<>>), FALSE, now)

newTest(result, now) == build(Blank, result, FALSE, now)

\* The children after the entries from position k on have been merged, each
\* into the child with its id or into a new child, together with the entries
\* as the children's builds have amended them (a child's result is the very
\* entry object of the parent's result).
mergeTests(acc, entries, k, cleanup, now) ==
    IF k > Len(entries)
    THEN acc
    ELSE LET entry == entries[k]
             at == findTest(acc.tests, entry.id)
             child == IF at = 0
                      THEN newTest(entry, now)
                      ELSE build(acc.tests[at], entry, cleanup, now)
             tests == IF at = 0
                      THEN Append(acc.tests, child)
                      ELSE [acc.tests EXCEPT ![at] = child]
         IN  mergeTests([tests |-> tests,
                         amended |-> Append(acc.amended, child.result)],
                        entries, k + 1, cleanup, now)

\* Debrief protocol (specification 4.2, steps 2 to 4).
debriefTests(this, entries, cleanup, now) ==
    LET merged == mergeTests([tests |-> this.tests, amended |-> <<>>],
                             entries, 1, cleanup, now)
        named == {entries[i].id : i \in DOMAIN entries}
        Represented(test) == getId(test) \in named
        kept == IF cleanup
                THEN SelectSeq(merged.tests, Represented)
                ELSE merged.tests
    IN  [this EXCEPT
            !.tests = kept,
            !.result = [@ EXCEPT !.tests = merged.amended],
            !.status = parseStatus([i \in DOMAIN kept |-> getStatus(kept[i])]),
            !.partial = \E i \in DOMAIN kept : ~Represented(kept[i])]

build_cleanAlways(this, result, cleanup, now) ==
    LET amended == [result EXCEPT !.status = getRecursiveStatus(result)]
        built == updateStatus(
                    [this EXCEPT !.result = mergeResults(this, amended, now)],
                    OrIdle(amended.status))
    IN  IF amended.tests # <<>>
        THEN debriefTests(built, amended.tests, TRUE, now)
        ELSE built

build_keepStatus(this, result, cleanup, now) ==
    LET amended == [result EXCEPT !.status = getRecursiveStatus(result)]
        built == [this EXCEPT !.result = mergeResults(this, amended, now)]
    IN  IF amended.tests # <<>>
        THEN debriefTests(built, amended.tests, cleanup, now)
        ELSE built

build_statusLast(this, result, cleanup, now) ==
    LET amended == [result EXCEPT !.status = getRecursiveStatus(result)]
        merged == [this EXCEPT !.result = mergeResults(this, amended, now)]
    IN  updateStatus(
            IF amended.tests # <<>>
            THEN debriefTests(merged, amended.tests, cleanup, now)
            ELSE merged,
            OrIdle(amended.status))

build(this, result, cleanup, now) ==
    LET amended == [result EXCEPT !.status = getRecursiveStatus(result)]
        built == updateStatus(
                    [this EXCEPT !.result = mergeResults(this, amended, now)],
                    OrIdle(amended.status))
    IN  IF amended.tests # <<>>
        THEN debriefTests(built, amended.tests, cleanup, now)
        ELSE built

\* The result as debrief stamps it before building.
stamp_keep(result, now) == result

stamp(result, now) == [result EXCEPT !.last = now]

\* ------------------------------------------------------------------------
\* Incoming fragments
\* ------------------------------------------------------------------------

\* Results of nested tests.
GrandFrags == {Frag("a", "failed", NoTime, <<>>)}

\* Entries of a fragment's `tests`: results of the test a, a result of the
\* test b with a nested result, a result without its id, and an entry that
\* is no object.
ChildFrags ==
    {Frag("a", status, NoTime, <<>>) : status \in {"passed", "failed"}}
    \cup {Frag("b", NoStatus, NoTime, <<g>>) : g \in GrandFrags}
    \cup {Frag(NoId, "passed", NoTime, <<>>), Null}

\* Fragments handed to the root: the root's own result from a reporter, the
\* same without a status and read back from the store (carrying the
\* first-seen date 1), a result without its id, and null.
TopFrags ==
    {Frag(top[1], top[2], top[3], tests) :
        top \in {<<"s", "passed", NoTime>>, <<"s", NoStatus, 1>>,
                 <<NoId, "passed", NoTime>>},
        tests \in SeqsUpTo(MaxTests, ChildFrags)}
    \cup {Null}

\* Results the root is constructed from: a test without nested tests, and
\* one with the tests a (passed) and b (failed in a nested test).
InitFrags ==
    {Frag("s", NoStatus, NoTime, tests) :
        tests \in {<<>>,
                   <<Frag("a", "passed", NoTime, <<>>),
                     Frag("b", NoStatus, NoTime,
                          <<Frag("a", "failed", NoTime, <<>>)>>)>>}}

\* ------------------------------------------------------------------------
\* State
\* ------------------------------------------------------------------------

VARIABLES
    root,       \* the Test the calls are made on
    now,        \* the clock (new Date())
    ops,        \* number of calls made on the root since its construction
    call,       \* the last call: its name, arguments and time
    outcome,    \* how the last call ended
    other,      \* a second Suite of the same framework
    inflight,   \* result fragments the runner has produced, not yet debriefed
    reply,      \* what the last handler returned or sent to the renderer
    lazy,       \* lazy loading: the nodes not yet loaded, the requests issued
    window,     \* the ApplicationWindow, its projects and what it has sent
    store       \* the renderer's modal store and the document body

vars ==
    <<root, now, ops, call, outcome, other, inflight, reply, lazy,
      window, store>>

\* The state outside the Test the calls are made on.
around == <<other, inflight, reply, lazy>>

NoReply == [kind |-> "none"]

NoLazy == [unloaded |-> {}, requests |-> <<>>]

\* The main window and the renderer's store, where they play no part.
desk == <<window, store>>

NoWindow == [open |-> FALSE]

NoStore == [modals |-> <<>>]

InitDesk ==
    /\ window = NoWindow
    /\ store = NoStore

\* One framework with a single Suite, nothing in flight, nothing sent.
InitAround ==
    /\ other = Blank
    /\ inflight = {}
    /\ reply = NoReply
    /\ lazy = NoLazy

Call(op, frag, cleanup, at, repeat) ==
    [op |-> op, frag |-> frag, cleanup |-> cleanup, at |-> at,
     repeat |-> repeat]

\* The call is the one made just before, with the same arguments.
Repeats(op, frag, cleanup) ==
    /\ call.op = op
    /\ call.frag = frag
    /\ call.cleanup = cleanup

\* new Test(window, result) at any time of the clock.
Init ==
    /\ now \in 1..MaxTime
    /\ \E result \in InitFrags :
          /\ root = newTest(result, now)
          /\ call = Call("new", result, FALSE, now, FALSE)
    /\ ops = 0
    /\ outcome = "returned"
    /\ InitAround
    /\ InitDesk

\* The clock advances.
Tick ==
    /\ now < MaxTime
    /\ now' = now + 1
    /\ UNCHANGED <<root, ops, call, outcome>>
    /\ UNCHANGED around
    /\ UNCHANGED desk

\* build(result, cleanup), as the constructor and the subclasses call it.  A
\* result that cannot be read throws before the node is touched.
Build(result, cleanup) ==
    /\ ops < MaxOps
    /\ ops' = ops + 1
    /\ call' = Call("build", result, cleanup, now,
                    Repeats("build", result, cleanup))
    /\ IF Throws(result)
       THEN /\ outcome' = "threw"
            /\ root' = root
       ELSE /\ outcome' = "returned"
            /\ root' = build(root, result, cleanup, now)
    /\ UNCHANGED now
    /\ UNCHANGED around
    /\ UNCHANGED desk

\* debrief(result, cleanup).  Stamping a result that is no object throws
\* before the promise exists; an exception of build inside the promise's
\* executor rejects the promise.
Debrief(result, cleanup) ==
    /\ ops < MaxOps
    /\ ops' = ops + 1
    /\ call' = Call("debrief", result, cleanup, now,
                    Repeats("debrief", result, cleanup))
    /\ IF ~result.object
       THEN /\ outcome' = "threw"
            /\ root' = root
       ELSE IF Throws(stamp(result, now))
       THEN /\ outcome' = "rejected"
            /\ root' = root
       ELSE /\ outcome' = "resolved"
            /\ root' = build(root, stamp(result, now), cleanup, now)
    /\ UNCHANGED now
    /\ UNCHANGED around
    /\ UNCHANGED desk

Next ==
    \/ Tick
    \/ \E result \in TopFrags, cleanup \in BOOLEAN : Build(result, cleanup)
    \/ \E result \in TopFrags, cleanup \in BOOLEAN : Debrief(result, cleanup)

Spec == Init /\ [][Next]_vars

\* ------------------------------------------------------------------------
\* Properties
\* ------------------------------------------------------------------------

\* The last step was a call of build or debrief that ran to its end.
Completed ==
    /\ call.op \in {"build", "debrief"}
    /\ outcome \in {"returned", "resolved"}

\* The step is a call (and not a tick of the clock).
IsCall == ops' = ops + 1

\* The ids of the children of a node, and the ids a fragment names.
ChildIds(this) == {getId(this.tests[i]) : i \in DOMAIN this.tests}

Named(result) == {result.tests[i].id : i \in DOMAIN result.tests}

\* C1: the promise returned by debrief is never rejected, whatever the
\* result fragment, also one that build cannot merge.
C1_DebriefNeverRejects == call.op = "debrief" => outcome # "rejected"

\* C2 as stated: the first-seen date of the root never changes, whatever
\* the incoming fragments carry.
C2_FirstNeverChanges ==
    [][root'.result.first = root.result.first]_vars

\* C2 amended: a call whose fragment carries no stats.first leaves the
\* first-seen date of the node as it was, and a fragment that carries one
\* replaces it by the date it carries.
C2_FirstKeptUnlessCarried ==
    [][/\ ~IsCall => root'.result.first = root.result.first
       /\ (IsCall /\ call'.frag.first = NoTime)
            => root'.result.first = root.result.first
       /\ (IsCall /\ call'.frag.first # NoTime /\ Completed')
            => root'.result.first = call'.frag.first]_vars

\* C2 witness: a fragment without stats.first was merged at a time later
\* than the node's first-seen date, which it kept.
C2_Witness ==
    /\ Completed
    /\ call.frag.first = NoTime
    /\ root.result.first < call.at

\* C3: after a call with cleanup = true the children of the node are exactly
\* the children the fragment names, also when it names none.
C3_CleanupLeavesNamedChildren ==
    (Completed /\ call.cleanup) => ChildIds(root) = Named(call.frag)

\* C4: a call with cleanup = false leaves every child whose id the fragment
\* does not name in its place and unchanged: status, result, flags, subtree.
C4_UntouchedChildrenKept ==
    [][(IsCall /\ ~call'.cleanup)
        => \A i \in DOMAIN root.tests :
              getId(root.tests[i]) \notin Named(call'.frag)
                => /\ i \in DOMAIN root'.tests
                   /\ root'.tests[i] = root.tests[i]]_vars

\* C4 witness: a fragment naming some children was merged without cleanup
\* into a node that has a further child, one with a subtree of its own.
C4_Witness ==
    /\ Completed
    /\ ~call.cleanup
    /\ call.frag.tests # <<>>
    /\ \E i \in DOMAIN root.tests :
          /\ getId(root.tests[i]) \notin Named(call.frag)
          /\ root.tests[i].tests # <<>>

\* C5: after a selective re-run (cleanup = false, results for some of the
\* children only) the children without a result keep their status, and the
\* parent's status is the aggregate over all its children, with partial set.
C5_SelectiveRerun ==
    [][(/\ IsCall
        /\ Completed'
        /\ ~call'.cleanup
        /\ call'.frag.tests # <<>>
        /\ ChildIds(root) \ Named(call'.frag) # {})
        => /\ \A i \in DOMAIN root.tests :
                 getId(root.tests[i]) \notin Named(call'.frag)
                    => getStatus(root'.tests[i]) = getStatus(root.tests[i])
           /\ getStatus(root') =
                 parseStatus([i \in DOMAIN root'.tests |->
                                getStatus(root'.tests[i])])
           /\ root'.partial]_vars

\* C5 witness: children a (passed) and b (failed), only a re-run and passed:
\* b is still failed, the parent failed and partial.
C5_Witness ==
    /\ Completed
    /\ ~call.cleanup
    /\ Named(call.frag) = {"a"}
    /\ Len(root.tests) = 2
    /\ getId(root.tests[1]) = "a" /\ getStatus(root.tests[1]) = "passed"
    /\ getId(root.tests[2]) = "b" /\ getStatus(root.tests[2]) = "failed"
    /\ getStatus(root) = "failed"
    /\ root.partial

\* The status of every node with children is the aggregate of theirs.
RECURSIVE Aggregated(_)
Aggregated(this) ==
    /\ this.tests # <<>>
         => getStatus(this) =
               parseStatus([i \in DOMAIN this.tests |-> getStatus(this.tests[i])])
    /\ \A i \in DOMAIN this.tests : Aggregated(this.tests[i])

\* C6: in every reachable state the status of a node that has children is
\* the aggregate of its children's current statuses.
C6_StatusIsAggregate == Aggregated(root)

\* C7: build with cleanup = false is idempotent: the same call made again,
\* at the same or a later time, leaves the whole tree as the first left it.
C7_BuildIdempotent ==
    [][(/\ IsCall
        /\ call'.op = "build"
        /\ ~call'.cleanup
        /\ call'.repeat
        /\ outcome = "returned")
        => root' = root]_vars

\* C7 witness: a fragment with child results was built twice into the node,
\* the second time after the node's first-seen date.
C7_Witness ==
    /\ call.op = "build"
    /\ call.repeat
    /\ ~call.cleanup
    /\ outcome = "returned"
    /\ call.frag.tests # <<>>
    /\ call.at > root.result.first

\* No two children of a node, at any depth, have the same id.
RECURSIVE DistinctIds(_)
DistinctIds(this) ==
    /\ \A i, j \in DOMAIN this.tests :
          getId(this.tests[i]) = getId(this.tests[j]) => i = j
    /\ \A i \in DOMAIN this.tests : DistinctIds(this.tests[i])

\* The ids of the children of a node, in order.
IdSeq(this) == [i \in DOMAIN this.tests |-> getId(this.tests[i])]

\* C8: a debrief routed by id changes the id of no node: the node keeps its
\* id, its children keep theirs in their order (those that cleanup removes
\* apart), and no two children of a node share an id.
C8_IdsStable ==
    [][(/\ IsCall
        /\ call'.op = "debrief"
        /\ outcome' = "resolved"
        /\ call'.frag.id = getId(root))
        => /\ getId(root') = getId(root)
           /\ LET InFragment(id) == id \in Named(call'.frag)
                  kept == IF call'.cleanup /\ call'.frag.tests # <<>>
                          THEN SelectSeq(IdSeq(root), InFragment)
                          ELSE IdSeq(root)
              IN  /\ Len(kept) <= Len(root'.tests)
                  /\ SubSeq(IdSeq(root'), 1, Len(kept)) = kept
           /\ DistinctIds(root')]_vars

\* C8 witness: a debrief routed by id has merged results into existing
\* children and created a new one, among them a child without id.
C8_Witness ==
    /\ call.op = "debrief"
    /\ outcome = "resolved"
    /\ getId(root) = call.frag.id
    /\ Len(root.tests) = 3
    /\ NoId \in ChildIds(root)

\* C9: a debrief stamps the stored result with the time of the call: the
\* last-run date never decreases, advances when the clock has, and the
\* first-seen date is not later than it.
C9_LastRunStamped ==
    [][(IsCall /\ call'.op = "debrief" /\ outcome' = "resolved")
        => /\ root'.result.last = now
           /\ root'.result.last >= root.result.last
           /\ now > root.result.last => root'.result.last > root.result.last
           /\ root'.result.first <= root'.result.last]_vars

\* C9 witness: the same debrief made twice, the second after the clock has
\* advanced past the first-seen date.
C9_Witness ==
    /\ call.op = "debrief"
    /\ call.repeat
    /\ outcome = "resolved"
    /\ root.result.last = call.at
    /\ root.result.first < root.result.last

\* C10: a debrief with a fragment that lacks its id resolves and leaves the
\* node with status error.
C10_MalformedBecomesError ==
    (/\ call.op = "debrief"
     /\ call.frag.id = NoId
     /\ ~Throws(call.frag))
        => (outcome = "resolved" /\ getStatus(root) = "error")

\* ------------------------------------------------------------------------
\* Status aggregation
\* ------------------------------------------------------------------------

\* Largest number of children the aggregating Test is constructed with.
MaxKids == 2

KidIds == {"k1", "k2", "k3", "k4"}

\* The result of one child, with any status, inside the parent's result.
KidFrags ==
    {Frag("s", NoStatus, NoTime, <<Frag(id, status, NoTime, <<>>)>>) :
        id \in KidIds, status \in Statuses}

\* Results of a parent with up to MaxKids children, of any statuses.
KidInitFrags ==
    {Frag("s", NoStatus, NoTime,
          [i \in 1..k |-> Frag(IF i = 1 THEN "k1" ELSE "k2",
                               statuses[i], NoTime, <<>>)]) :
        k \in 0..MaxKids, statuses \in [1..MaxKids -> Statuses]}

\* A Test constructed from a result with children.
InitAgg ==
    /\ now = 1
    /\ \E result \in KidInitFrags :
          /\ root = newTest(result, now)
          /\ call = Call("new", result, FALSE, now, FALSE)
    /\ ops = 0
    /\ outcome = "returned"
    /\ InitAround
    /\ InitDesk

\* Results of single children arrive, for new and for existing children.
NextAgg == \E result \in KidFrags : Debrief(result, FALSE)

SpecAgg == InitAgg /\ [][NextAgg]_vars

\* The statuses of the children of a node, in order and as a set.
ChildStatuses(this) == [i \in DOMAIN this.tests |-> getStatus(this.tests[i])]

StatusSet(this) == {getStatus(this.tests[i]) : i \in DOMAIN this.tests}

\* Status s comes before status t in the precedence order.
Precedes(s, t) ==
    \E i, j \in DOMAIN Precedence :
        /\ Precedence[i] = s
        /\ Precedence[j] = t
        /\ i < j

\* C11: the status of a parent is the status of one of its children that no
\* other child's status precedes in error > failed > warning > incomplete >
\* passed > running > queued > idle > empty; children {passed, warning, idle}
\* give warning, and with a further child in error the parent is in error.
C11_HighestPrecedence ==
    root.tests # <<>> =>
        /\ getStatus(root) \in StatusSet(root)
        /\ \A s \in StatusSet(root) : ~Precedes(s, getStatus(root))
        /\ StatusSet(root) = {"passed", "warning", "idle"}
              => getStatus(root) = "warning"
        /\ StatusSet(root) = {"passed", "warning", "idle", "error"}
              => getStatus(root) = "error"

\* C11 witness: to children passed, warning and idle a child in error has
\* been added by the last debrief, and the parent is in error.
C11_Witness ==
    /\ call.op = "debrief"
    /\ outcome = "resolved"
    /\ Len(root.tests) = 4
    /\ StatusSet(root) = {"passed", "warning", "idle", "error"}
    /\ call.frag.tests[1].status = "error"
    /\ getId(root.tests[4]) = call.frag.tests[1].id
    /\ getStatus(root) = "error"

\* The orders (permutations) of 1..n.
Orders(n) == {p \in [1..n -> 1..n] : \A i, j \in 1..n : p[i] = p[j] => i = j}

\* C12: the aggregate does not depend on the order of the children: every
\* permutation of the children's statuses aggregates to the parent's status;
\* and debriefing the same result again leaves the parent's status as it is.
C12_OrderIndependent ==
    [][/\ \A p \in Orders(Len(root'.tests)) :
             parseStatus([i \in DOMAIN root'.tests |->
                            getStatus(root'.tests[p[i]])]) = getStatus(root')
       /\ (IsCall /\ call'.repeat /\ outcome = "resolved")
             => getStatus(root') = getStatus(root)]_vars

\* C12 witness: the same result debriefed twice into a parent whose three
\* children have three different statuses.
C12_Witness ==
    /\ call.op = "debrief"
    /\ call.repeat
    /\ outcome = "resolved"
    /\ Len(root.tests) = 3
    /\ Cardinality(StatusSet(root)) = 3

\* ------------------------------------------------------------------------
\* Nugget: selection, queueing and run states (modelled from the
\* specification, sections 4.1 and 4.4)
\* ------------------------------------------------------------------------

\* The node at a path of child positions, and the tree with the node at
\* that path replaced.
RECURSIVE NodeAt(_, _)
NodeAt(this, path) ==
    IF path = <<>> THEN this ELSE NodeAt(this.tests[Head(path)], Tail(path))

RECURSIVE ReplaceAt(_, _, _)
ReplaceAt(this, path, node) ==
    IF path = <<>>
    THEN node
    ELSE [this EXCEPT
            !.tests[Head(path)] = ReplaceAt(@, Tail(path), node)]

\* The paths of all nodes of a tree.
RECURSIVE Paths(_)
Paths(this) ==
    {<<>>} \cup UNION {{<<i>> \o p : p \in Paths(this.tests[i])} :
                          i \in DOMAIN this.tests}

\* toggleSelected(toggle, cascade): sets selected on the node and, when
\* cascading, on all its descendants.
RECURSIVE toggleSelected(_, _, _)
toggleSelected(this, toggle, cascade) ==
    [this EXCEPT
        !.selected = toggle,
        !.tests = IF cascade
                  THEN [i \in DOMAIN @ |-> toggleSelected(@[i], toggle, TRUE)]
                  ELSE @]

\* The transition of a run state: the node the call is made on and, of its
\* descendants, all (or, in a selective run, the selected ones) take the
\* status `to`; with onlyQueued, only those that are queued at that moment.
RECURSIVE runStatus(_, _, _, _)
runStatus(this, to, selective, onlyQueued) ==
    [this EXCEPT
        !.status = IF onlyQueued /\ @ # "queued" THEN @ ELSE to,
        !.tests = [i \in DOMAIN @ |->
                     IF selective /\ ~@[i].selected
                     THEN @[i]
                     ELSE runStatus(@[i], to, selective, onlyQueued)]]

queue(this, selective) == runStatus(this, "queued", selective, FALSE)

idle(this, selective) == runStatus(this, "idle", selective, FALSE)

error(this, selective) == runStatus(this, "error", selective, FALSE)

idleQueued(this, selective) == runStatus(this, "idle", selective, TRUE)

errorQueued(this, selective) == runStatus(this, "error", selective, TRUE)

\* ------------------------------------------------------------------------
\* A run: selecting, queueing, results arriving, resetting
\* ------------------------------------------------------------------------

\* Number of calls made in a run.
MaxSteps == 4

\* A call of one of the run operations.
RunCall(op, path, flag) ==
    [op |-> op, path |-> path, flag |-> flag, frag |-> Null, at |-> now]

\* Results that arrive during a run: of the test a alone, of the test b
\* (with its nested test) alone, and of both.
RunFrags ==
    {Frag("s", NoStatus, NoTime, tests) :
        tests \in {<<Frag("a", "passed", NoTime, <<>>)>>,
                   <<Frag("a", "failed", NoTime, <<>>)>>,
                   <<Frag("b", NoStatus, NoTime,
                          <<Frag("a", "passed", NoTime, <<>>)>>)>>}}

\* A Test with the tests a (passed) and b (failed in a nested test).
InitRun ==
    /\ now = 1
    /\ \E result \in {r \in InitFrags : r.tests # <<>>} :
          /\ root = newTest(result, now)
          /\ call = Call("new", result, FALSE, now, FALSE)
    /\ ops = 0
    /\ outcome = "returned"
    /\ InitAround
    /\ InitDesk

\* The user selects or deselects a test (with its descendants).
Select(path, toggle) ==
    /\ ops < MaxSteps
    /\ ops' = ops + 1
    /\ path \in Paths(root)
    /\ root' = ReplaceAt(root, path,
                         toggleSelected(NodeAt(root, path), toggle, TRUE))
    /\ call' = RunCall("toggleSelected", path, toggle)
    /\ outcome' = "resolved"
    /\ UNCHANGED now
    /\ UNCHANGED around
    /\ UNCHANGED desk

\* One of queue, idle, error, idleQueued, errorQueued on the root.
Run(op, selective) ==
    /\ ops < MaxSteps
    /\ ops' = ops + 1
    /\ root' = CASE op = "queue" -> queue(root, selective)
                 [] op = "idle" -> idle(root, selective)
                 [] op = "error" -> error(root, selective)
                 [] op = "idleQueued" -> idleQueued(root, selective)
                 [] op = "errorQueued" -> errorQueued(root, selective)
    /\ call' = RunCall(op, <<>>, selective)
    /\ outcome' = "returned"
    /\ UNCHANGED now
    /\ UNCHANGED around
    /\ UNCHANGED desk

\* The result of a part of the run arrives and is debriefed into the root,
\* without cleanup.
Arrives(result) ==
    /\ ops < MaxSteps
    /\ ops' = ops + 1
    /\ root' = build(root, stamp(result, now), FALSE, now)
    /\ call' = [RunCall("debrief", <<>>, FALSE) EXCEPT !.frag = result]
    /\ outcome' = "resolved"
    /\ UNCHANGED now
    /\ UNCHANGED around
    /\ UNCHANGED desk

RunOps == {"queue", "idle", "error", "idleQueued", "errorQueued"}

NextRun ==
    \/ \E path \in Paths(root), toggle \in BOOLEAN : Select(path, toggle)
    \/ \E op \in RunOps, selective \in BOOLEAN : Run(op, selective)
    \/ \E result \in RunFrags : Arrives(result)

SpecRun == InitRun /\ [][NextRun]_vars

\* Every node of `old` that is not queued is the same in `new`: its status,
\* its stored result and its selection; and no node has come or gone.
RECURSIVE KeptUnlessQueued(_, _)
KeptUnlessQueued(old, new) ==
    /\ new.result = old.result
    /\ new.selected = old.selected
    /\ new.expanded = old.expanded
    /\ getStatus(old) # "queued" => getStatus(new) = getStatus(old)
    /\ Len(new.tests) = Len(old.tests)
    /\ \A i \in DOMAIN old.tests : KeptUnlessQueued(old.tests[i], new.tests[i])

\* The node, and every descendant the result names, is no longer queued.
RECURSIVE Arrived(_, _)
Arrived(this, result) ==
    /\ getStatus(this) # "queued"
    /\ \A i \in DOMAIN result.tests :
          LET at == findTest(this.tests, result.tests[i].id)
          IN  at # 0 /\ Arrived(this.tests[at], result.tests[i])

\* C13: idleQueued and errorQueued change only nodes that are queued when
\* they are called; a node whose result has arrived through debrief is not
\* queued any more, so that a later idleQueued or errorQueued leaves its
\* status and its stored result as they are.
C13_OnlyQueuedChange ==
    [][/\ (IsCall /\ call'.op \in {"idleQueued", "errorQueued"})
            => KeptUnlessQueued(root, root')
       /\ (IsCall /\ call'.op = "debrief")
            => Arrived(root', call'.frag)]_vars

\* C13 witness: after queueing, the result of a arrived; idleQueued then
\* left a passed, with its result, and reset b, for which none arrived.
C13_Witness ==
    /\ call.op = "idleQueued"
    /\ Len(root.tests) = 2
    /\ root.result.last # NoTime
    /\ Named(root.result) = {"a"}
    /\ getStatus(root.tests[1]) = "passed"
    /\ getStatus(root.tests[2]) = "idle"
    /\ root.tests[2].result.status = "failed"

\* ------------------------------------------------------------------------
\* Two Suites of one Framework, debriefed as their results arrive
\* ------------------------------------------------------------------------

\* Longest list of result fragments in flight for one Suite.
MaxFrags == 2

\* The two Suites: x is held in `root`, y in `other`.
SuiteIds == {"x", "y"}

Suites == [x |-> root, y |-> other]

\* A fragment in flight, with the cleanup flag of its debrief.
SuiteFrags ==
    {[frag |-> Frag("s", NoStatus, NoTime,
                    <<Frag("a", "passed", NoTime, <<>>)>>),
      cleanup |-> FALSE],
     [frag |-> Frag("s", NoStatus, NoTime,
                    <<Frag("a", "failed", NoTime, <<>>)>>),
      cleanup |-> TRUE],
     [frag |-> Frag("s", NoStatus, NoTime,
                    <<Frag("b", NoStatus, NoTime,
                           <<Frag("a", "passed", NoTime, <<>>)>>)>>),
      cleanup |-> FALSE]}

\* debrief called on one Suite: it stamps the result and builds it into
\* `this`, and into nothing else.
debriefSuite_shared(suites, which, item, at) ==
    [s \in DOMAIN suites |->
        build(suites[s], stamp(item.frag, at), item.cleanup, at)]

debriefSuite(suites, which, item, at) ==
    [suites EXCEPT
        ![which] = build(@, stamp(item.frag, at), item.cleanup, at)]

\* The debriefs of a list of fragments, one after the other, on one node.
RECURSIVE debriefAll(_, _, _)
debriefAll(this, items, at) ==
    IF items = <<>>
    THEN this
    ELSE debriefAll(build(this, stamp(Head(items).frag, at),
                          Head(items).cleanup, at),
                    Tail(items), at)

\* Two Suites with the tests a and b; for each, the fragments of its run are
\* in flight, in the order in which its debriefs will be made.
InitSuites ==
    /\ now = 1
    /\ \E result \in {r \in InitFrags : r.tests # <<>>} :
          /\ root = newTest(result, now)
          /\ other = newTest(result, now)
          /\ call = Call("new", result, FALSE, now, FALSE)
          /\ \E qx, qy \in SeqsUpTo(MaxFrags, SuiteFrags) :
                inflight = [todo |-> [x |-> qx, y |-> qy],
                            sent |-> [x |-> qx, y |-> qy],
                            from |-> [x |-> newTest(result, now),
                                      y |-> newTest(result, now)]]
    /\ ops = 0
    /\ outcome = "returned"
    /\ reply = NoReply
    /\ lazy = NoLazy
    /\ InitDesk

\* Time passes between two completions.
TickSuites ==
    /\ now < MaxTime
    /\ now' = now + 1
    /\ UNCHANGED <<root, ops, call, outcome, other, inflight, reply, lazy>>
    /\ UNCHANGED desk

\* The next fragment of one Suite completes and is debriefed into it.
DebriefSuite(which) ==
    /\ inflight.todo[which] # <<>>
    /\ LET item == Head(inflight.todo[which])
           after == debriefSuite(Suites, which, item, now)
       IN  /\ root' = after.x
           /\ other' = after.y
           /\ call' = [op |-> "debrief", suite |-> which, frag |-> item.frag,
                       cleanup |-> item.cleanup, at |-> now]
    /\ inflight' = [inflight EXCEPT !.todo[which] = Tail(@)]
    /\ ops' = ops + 1
    /\ outcome' = "resolved"
    /\ UNCHANGED <<now, reply, lazy>>
    /\ UNCHANGED desk

NextSuites ==
    \/ TickSuites
    \/ \E which \in SuiteIds : DebriefSuite(which)

SpecSuites == InitSuites /\ [][NextSuites]_vars

\* A stored result, and a tree, without its timestamps.
RECURSIVE UndatedResult(_)
UndatedResult(result) ==
    [result EXCEPT !.first = NoTime, !.last = NoTime,
                   !.tests = [i \in DOMAIN @ |-> UndatedResult(@[i])]]

RECURSIVE Undated(_)
Undated(this) ==
    [this EXCEPT !.result = UndatedResult(@),
                 !.tests = [i \in DOMAIN @ |-> Undated(@[i])]]

\* C15: a debrief of one Suite changes no node of the other; and when all
\* fragments have been debriefed, in whatever interleaving and at whatever
\* times, each Suite is, timestamps apart, what the debriefs of its own
\* fragments alone make of it.
C15_SuitesIndependent ==
    [][/\ (IsCall /\ call'.suite = "x") => other' = other
       /\ (IsCall /\ call'.suite = "y") => root' = root
       /\ (inflight'.todo.x = <<>> /\ inflight'.todo.y = <<>>)
            => /\ Undated(root') =
                    Undated(debriefAll(inflight.from.x, inflight.sent.x, 1))
               /\ Undated(other') =
                    Undated(debriefAll(inflight.from.y, inflight.sent.y, 1))
      ]_vars

\* C15 witness: two different fragments for each Suite have all been
\* debriefed, the last one of x after the last one of y, at a later time,
\* and the two Suites have come to differ.
C15_Witness ==
    /\ call.op = "debrief"
    /\ call.suite = "x"
    /\ inflight.todo = [x |-> <<>>, y |-> <<>>]
    /\ Len(inflight.sent.x) = 2
    /\ Len(inflight.sent.y) = 2
    /\ inflight.sent.x # inflight.sent.y
    /\ root.result.last > other.result.last
    /\ getStatus(root) # getStatus(other)

\* ------------------------------------------------------------------------
\* Test: render and persist
\* ------------------------------------------------------------------------

\* Nugget.defaults(result, status), modelled from the specification (section
\* 6) and from the parameter's description at render and persist: the status
\* is set on the result and, recursively, on its tests; with `false` the
\* statuses stay as they are.
RECURSIVE defaults(_, _)
defaults(result, status) ==
    [result EXCEPT
        !.status = IF status = "false" THEN @ ELSE status,
        !.tests = [i \in DOMAIN @ |-> defaults(@[i], status)]]

\* Nugget.hasChildren(): whether the node has immediate children.
hasChildren(this) == this.tests # <<>>

\* { ...a, ...b }: the properties of b are set over those of a.
Spread(a, b) ==
    [f \in DOMAIN a \cup DOMAIN b |-> IF f \in DOMAIN b THEN b[f] ELSE a[f]]

\* lodash omit(object, key).
omit(object, key) == [f \in DOMAIN object \ {key} |-> object[f]]

\* The status parameter of render and persist: left out ("default", which
\* the signature turns into 'idle'), false, or a status.
StatusArgs == {"default", "false", "failed"}

OrDefault(status) == IF status = "default" THEN "idle" ELSE status

\* render(status).
render_withTests(this, status) ==
    Spread(defaults(this.result, OrDefault(status)),
           [hasChildren |-> hasChildren(this),
            selected |-> this.selected,
            partial |-> this.partial])

render(this, status) ==
    omit(Spread(defaults(this.result, OrDefault(status)),
                [hasChildren |-> hasChildren(this),
                 selected |-> this.selected,
                 partial |-> this.partial]),
         "tests")

\* persist(status).
persist_current(this, status) ==
    defaults(this.result, IF status = "default" THEN "false" ELSE status)

persist(this, status) == defaults(this.result, OrDefault(status))

\* render is called on a node of the tree; the payload is sent out.
Render(path, status) ==
    /\ ops < MaxSteps
    /\ ops' = ops + 1
    /\ path \in Paths(root)
    /\ reply' = [kind |-> "render",
                 payload |-> render(NodeAt(root, path), status)]
    /\ call' = RunCall("render", path, status)
    /\ outcome' = "returned"
    /\ UNCHANGED <<root, now, other, inflight, lazy>>
    /\ UNCHANGED desk

\* persist is called on a node of the tree.
Persist(path, status) ==
    /\ ops < MaxSteps
    /\ ops' = ops + 1
    /\ path \in Paths(root)
    /\ reply' = [kind |-> "persist",
                 payload |-> persist(NodeAt(root, path), status)]
    /\ call' = RunCall("persist", path, status)
    /\ outcome' = "returned"
    /\ UNCHANGED <<root, now, other, inflight, lazy>>
    /\ UNCHANGED desk

\* A run in which the tree is rendered and persisted at any moment.
NextView ==
    \/ \E path \in Paths(root) : Select(path, TRUE)
    \/ \E selective \in BOOLEAN : Run("queue", selective)
    \/ \E result \in RunFrags : Arrives(result)
    \/ \E path \in Paths(root), status \in StatusArgs : Render(path, status)
    \/ \E path \in Paths(root), status \in StatusArgs : Persist(path, status)

SpecView == InitRun /\ [][NextView]_vars

\* C16: the payload of render has no `tests`, whatever the stored result
\* holds, and its hasChildren, selected and partial are those of the node.
C16_RenderWithoutTests ==
    [][(IsCall /\ call'.op = "render")
          => LET this == NodeAt(root', call'.path)
             IN  /\ "tests" \notin DOMAIN reply'.payload
                 /\ reply'.payload.hasChildren = hasChildren(this)
                 /\ reply'.payload.selected = this.selected
                 /\ reply'.payload.partial = this.partial
                 /\ reply'.payload.id = getId(this)]_vars

\* C16 witness: a selected, partial node whose stored result carries nested
\* tests has been rendered.
C16_Witness ==
    /\ call.op = "render"
    /\ call.path = <<>>
    /\ root.result.tests # <<>>
    /\ root.result.tests[1].tests # <<>>
    /\ root.selected
    /\ root.partial
    /\ reply.payload.selected
    /\ reply.payload.partial
    /\ reply.payload.hasChildren

\* All statuses of a result, down to the nested ones, are `status`.
RECURSIVE AllStatus(_, _)
AllStatus(result, status) ==
    /\ result.status = status
    /\ \A i \in DOMAIN result.tests : AllStatus(result.tests[i], status)

\* Two results are the same tree apart from the statuses.
RECURSIVE SameButStatus(_, _)
SameButStatus(a, b) ==
    /\ [a EXCEPT !.status = NoStatus, !.tests = <<>>]
         = [b EXCEPT !.status = NoStatus, !.tests = <<>>]
    /\ Len(a.tests) = Len(b.tests)
    /\ \A i \in DOMAIN a.tests : SameButStatus(a.tests[i], b.tests[i])

RECURSIVE Concat(_)
Concat(seqs) ==
    IF seqs = <<>> THEN <<>> ELSE Head(seqs) \o Concat(Tail(seqs))

\* toggleExpanded(toggle, cascade) on the node at `path`: nothing happens
\* when the node is in the requested state and the call does not cascade;
\* otherwise expanded is set, a lazy-load request is made if the node is
\* toggled on while its children are not materialized, and, cascading, the
\* same is done on the descendants.  Gives the node and the requests made.
RECURSIVE toggleExpanded_always(_, _, _, _, _)
toggleExpanded_always(this, path, unloaded, toggle, cascade) ==
    LET kids == [i \in DOMAIN this.tests |->
                    IF cascade
                    THEN toggleExpanded_always(this.tests[i], path \o <<i>>,
                                               unloaded, toggle, TRUE)
                    ELSE [node |-> this.tests[i], requests |-> <<>>]]
    IN  [node |-> [this EXCEPT
                      !.expanded = toggle,
                      !.tests = [i \in DOMAIN @ |-> kids[i].node]],
         requests |->
            (IF toggle /\ path \in unloaded
             THEN <<[id |-> getId(this), path |-> path]>>
             ELSE <<>>)
            \o Concat([i \in DOMAIN kids |-> kids[i].requests])]

RECURSIVE toggleExpanded(_, _, _, _, _)
toggleExpanded(this, path, unloaded, toggle, cascade) ==
    IF ~cascade /\ this.expanded = toggle
    THEN [node |-> this, requests |-> <<>>]
    ELSE LET kids == [i \in DOMAIN this.tests |->
                         IF cascade
                         THEN toggleExpanded(this.tests[i], path \o <<i>>,
                                             unloaded, toggle, TRUE)
                         ELSE [node |-> this.tests[i], requests |-> <<>>]]
         IN  [node |-> [this EXCEPT
                           !.expanded = toggle,
                           !.tests = [i \in DOMAIN @ |-> kids[i].node]],
              requests |->
                 (IF toggle /\ path \in unloaded
                  THEN <<[id |-> getId(this), path |-> path]>>
                  ELSE <<>>)
                 \o Concat([i \in DOMAIN kids |-> kids[i].requests])]

\* The call made on the node at a path of a tree: the tree with the node
\* toggled, and the lazy-load requests with the new ones added.
toggleExpandedAt(tree, lz, path, toggle, cascade) ==
    LET done == toggleExpanded(NodeAt(tree, path), path, lz.unloaded,
                               toggle, cascade)
    IN  [tree |-> ReplaceAt(tree, path, done.node),
         lazy |-> [lz EXCEPT !.requests = @ \o done.requests]]

\* ------------------------------------------------------------------------
\* Main process: entities and the handlers that look nodes up
\* ------------------------------------------------------------------------

\* Number of calls the renderer makes.
MaxCalls == 2

\* Longest list of identifiers in a call.
MaxDepth == 3

\* The framework of the project, and an id no framework has.
FrameworkIds == {"f"}

AnyFrameworkIds == {"f", "g"}

\* Identifiers the renderer sends: the ids of the tree and one that no node
\* has.
AnyIds == {"s", "a", "b", "z"}

\* The lists of identifiers the renderer sends: a suite id alone, or ids of
\* tests after the id of the suite it shows.
Identifiers ==
    {ids \in SeqsUpTo(MaxDepth, AnyIds) : Len(ids) > 1 => ids[1] = "s"}

\* Framework.getSuiteById: the framework's one suite is `root`.
getSuiteById(tree, id) == IF getId(tree) = id THEN 1 ELSE 0

\* entities, from the first identifier on: the suite, then test by test;
\* each nugget found is expanded unless it is expanded already; a nugget
\* that is not found throws, and the promise is rejected.  `nuggets` are
\* the paths of the nuggets found so far.
RECURSIVE entitiesFrom_unopened(_, _, _, _)
entitiesFrom_unopened(tree, lz, nuggets, identifiers) ==
    LET at == IF nuggets = <<>>
              THEN getSuiteById(tree, Head(identifiers))
              ELSE findTest(NodeAt(tree, nuggets[Len(nuggets)]).tests,
                            Head(identifiers))
    IN  IF at = 0
        THEN [ok |-> FALSE, tree |-> tree, lazy |-> lz, nuggets |-> <<>>]
        ELSE LET path == IF nuggets = <<>>
                         THEN <<>>
                         ELSE nuggets[Len(nuggets)] \o <<at>>
             IN  IF Tail(identifiers) = <<>>
                 THEN [ok |-> TRUE, tree |-> tree, lazy |-> lz,
                       nuggets |-> Append(nuggets, path)]
                 ELSE entitiesFrom_unopened(tree, lz, Append(nuggets, path),
                                            Tail(identifiers))

RECURSIVE entitiesFrom(_, _, _, _)
entitiesFrom(tree, lz, nuggets, identifiers) ==
    LET at == IF nuggets = <<>>
              THEN getSuiteById(tree, Head(identifiers))
              ELSE findTest(NodeAt(tree, nuggets[Len(nuggets)]).tests,
                            Head(identifiers))
    IN  IF at = 0
        THEN [ok |-> FALSE, tree |-> tree, lazy |-> lz, nuggets |-> <<>>]
        ELSE LET path == IF nuggets = <<>>
                         THEN <<>>
                         ELSE nuggets[Len(nuggets)] \o <<at>>
                 open == IF NodeAt(tree, path).expanded
                         THEN [tree |-> tree, lazy |-> lz]
                         ELSE toggleExpandedAt(tree, lz, path, TRUE, FALSE)
             IN  IF Tail(identifiers) = <<>>
                 THEN [ok |-> TRUE, tree |-> open.tree, lazy |-> open.lazy,
                       nuggets |-> Append(nuggets, path)]
                 ELSE entitiesFrom(open.tree, open.lazy,
                                   Append(nuggets, path), Tail(identifiers))

\* entities(event, frameworkId, identifiers).
entities(tree, lz, frameworkId, identifiers) ==
    IF frameworkId \notin FrameworkIds
    THEN [ok |-> FALSE, tree |-> tree, lazy |-> lz, nuggets |-> <<>>]
    ELSE IF identifiers = <<>>
    THEN [ok |-> TRUE, tree |-> tree, lazy |-> lz, nuggets |-> <<>>]
    ELSE entitiesFrom(tree, lz, <<>>, identifiers)

\* A call of a handler, with what became of its entities promise.
HandlerCall(op, frameworkId, identifiers, toggle, found) ==
    [op |-> op, framework |-> frameworkId, identifiers |-> identifiers,
     toggle |-> toggle,
     entities |-> IF found.ok THEN "resolved" ELSE "rejected",
     nuggets |-> found.nuggets,
     path |-> IF found.nuggets = <<>>
              THEN <<>>
              ELSE found.nuggets[Len(found.nuggets)]]

NotFound == [kind |-> "test-get", framework |-> "null", nuggets |-> "null"]

\* 'test-get': what the handler's promise comes to.  Without nuggets,
\* nuggets.map throws inside the try as a rejection of entities does.
testGet_uncaught(found, frameworkId) ==
    IF found.ok /\ found.nuggets # <<>>
    THEN [outcome |-> "resolved",
          reply |-> [kind |-> "test-get",
                     framework |-> frameworkId,
                     nuggets |-> [i \in DOMAIN found.nuggets |->
                                    render(NodeAt(found.tree,
                                                  found.nuggets[i]),
                                           "false")]]]
    ELSE [outcome |-> "rejected", reply |-> NoReply]

testGet(found, frameworkId) ==
    IF found.ok /\ found.nuggets # <<>>
    THEN [outcome |-> "resolved",
          reply |-> [kind |-> "test-get",
                     framework |-> frameworkId,
                     nuggets |-> [i \in DOMAIN found.nuggets |->
                                    render(NodeAt(found.tree,
                                                  found.nuggets[i]),
                                           "false")]]]
    ELSE [outcome |-> "resolved", reply |-> NotFound]

\* 'framework-select': what the handler does with the nugget found.
frameworkSelect_single(tree, path, toggle) ==
    ReplaceAt(tree, path, toggleSelected(NodeAt(tree, path), toggle, FALSE))

frameworkSelect(tree, path, toggle) ==
    ReplaceAt(tree, path, toggleSelected(NodeAt(tree, path), toggle, TRUE))

\* A Test with the tests a and b (b with a nested test); the children of
\* any of the nodes that have some may not be materialized yet.
InitLookup ==
    /\ now = 1
    /\ \E result \in {r \in InitFrags : r.tests # <<>>} :
          /\ root = newTest(result, now)
          /\ call = Call("new", result, FALSE, now, FALSE)
          /\ \E unloaded \in
                   SUBSET {p \in Paths(newTest(result, now)) :
                             hasChildren(NodeAt(newTest(result, now), p))} :
                lazy = [NoLazy EXCEPT !.unloaded = unloaded]
    /\ ops = 0
    /\ outcome = "returned"
    /\ other = Blank
    /\ inflight = {}
    /\ reply = NoReply
    /\ InitDesk

\* ipcMain.handle('test-get').
TestGet(frameworkId, identifiers) ==
    /\ ops < MaxCalls
    /\ ops' = ops + 1
    /\ LET found == entities(root, lazy, frameworkId, identifiers)
           done == testGet(found, frameworkId)
       IN  /\ root' = found.tree
           /\ lazy' = found.lazy
           /\ reply' = done.reply
           /\ outcome' = done.outcome
           /\ call' = HandlerCall("test-get", frameworkId, identifiers,
                                  FALSE, found)
    /\ UNCHANGED <<now, other, inflight>>
    /\ UNCHANGED desk

\* ipcMain.on('framework-select').  When entities rejects, or resolves
\* without a nugget, nothing is selected.
FrameworkSelect(frameworkId, identifiers, toggle) ==
    /\ ops < MaxCalls
    /\ ops' = ops + 1
    /\ LET found == entities(root, lazy, frameworkId, identifiers)
       IN  /\ root' = IF found.ok /\ found.nuggets # <<>>
                      THEN frameworkSelect(found.tree,
                                           found.nuggets[Len(found.nuggets)],
                                           toggle)
                      ELSE found.tree
           /\ lazy' = found.lazy
           /\ outcome' = IF found.ok /\ found.nuggets # <<>>
                         THEN "returned"
                         ELSE "unhandled"
           /\ call' = HandlerCall("framework-select", frameworkId,
                                  identifiers, toggle, found)
    /\ UNCHANGED <<now, other, inflight, reply>>
    /\ UNCHANGED desk

\* 'framework-toggle-child': what the handler does once entities has
\* resolved: expanding, it sends the payloads of the nugget's tests, each
\* rendered with false; collapsing, it withers the nugget and its
\* descendants and sends nothing.  `sent` is the last message sent before.
frameworkToggleChild_idle(found, toggle, sent) ==
    IF ~(found.ok /\ found.nuggets # <<>>)
    THEN [tree |-> found.tree, lazy |-> found.lazy, reply |-> sent]
    ELSE LET path == found.nuggets[Len(found.nuggets)]
             nugget == NodeAt(found.tree, path)
             done == toggleExpandedAt(found.tree, found.lazy, path,
                                      FALSE, TRUE)
         IN  IF toggle
             THEN [tree |-> found.tree, lazy |-> found.lazy,
                   reply |-> [kind |-> "framework-tests",
                              id |-> getId(nugget),
                              payload |->
                                 [i \in DOMAIN nugget.tests |->
                                    render(nugget.tests[i], "default")]]]
             ELSE [tree |-> done.tree, lazy |-> done.lazy, reply |-> sent]

frameworkToggleChild(found, toggle, sent) ==
    IF ~(found.ok /\ found.nuggets # <<>>)
    THEN [tree |-> found.tree, lazy |-> found.lazy, reply |-> sent]
    ELSE LET path == found.nuggets[Len(found.nuggets)]
             nugget == NodeAt(found.tree, path)
             done == toggleExpandedAt(found.tree, found.lazy, path,
                                      FALSE, TRUE)
         IN  IF toggle
             THEN [tree |-> found.tree, lazy |-> found.lazy,
                   reply |-> [kind |-> "framework-tests",
                              id |-> getId(nugget),
                              payload |->
                                 [i \in DOMAIN nugget.tests |->
                                    render(nugget.tests[i], "false")]]]
             ELSE [tree |-> done.tree, lazy |-> done.lazy, reply |-> sent]

\* ipcMain.on('framework-toggle-child').  When entities rejects, or
\* resolves without a nugget, nothing is toggled or sent.
FrameworkToggleChild(frameworkId, identifiers, toggle) ==
    /\ ops < MaxCalls
    /\ ops' = ops + 1
    /\ LET found == entities(root, lazy, frameworkId, identifiers)
           done == frameworkToggleChild(found, toggle, reply)
       IN  /\ root' = done.tree
           /\ lazy' = done.lazy
           /\ reply' = done.reply
           /\ outcome' = IF found.ok /\ found.nuggets # <<>>
                         THEN "returned"
                         ELSE "unhandled"
           /\ call' = HandlerCall("framework-toggle-child", frameworkId,
                                  identifiers, toggle, found)
    /\ UNCHANGED <<now, other, inflight>>
    /\ UNCHANGED desk

\* toggleExpanded(toggle, cascade) called on a node, not awaited.
ToggleExpanded(path, toggle, cascade) ==
    /\ ops < MaxCalls
    /\ ops' = ops + 1
    /\ path \in Paths(root)
    /\ LET done == toggleExpandedAt(root, lazy, path, toggle, cascade)
       IN  /\ root' = done.tree
           /\ lazy' = done.lazy
    /\ call' = [op |-> "toggleExpanded", path |-> path, toggle |-> toggle,
                cascade |-> cascade]
    /\ outcome' = "returned"
    /\ UNCHANGED <<now, other, inflight, reply>>
    /\ UNCHANGED desk

\* The lazy-load collaborator answers a request: the node's children are
\* materialized.
LazyLoaded(path) ==
    /\ path \in lazy.unloaded
    /\ \E i \in DOMAIN lazy.requests : lazy.requests[i].path = path
    /\ lazy' = [lazy EXCEPT !.unloaded = @ \ {path}]
    /\ UNCHANGED <<root, now, ops, call, outcome, other, inflight, reply>>
    /\ UNCHANGED desk

NextLookup ==
    \/ \E frameworkId \in AnyFrameworkIds,
          identifiers \in Identifiers :
             TestGet(frameworkId, identifiers)
    \/ \E frameworkId \in AnyFrameworkIds,
          identifiers \in Identifiers, toggle \in BOOLEAN :
             FrameworkSelect(frameworkId, identifiers, toggle)
    \/ \E frameworkId \in AnyFrameworkIds,
          identifiers \in Identifiers, toggle \in BOOLEAN :
             FrameworkToggleChild(frameworkId, identifiers, toggle)
    \/ \E path \in Paths(root), toggle, cascade \in BOOLEAN :
             ToggleExpanded(path, toggle, cascade)
    \/ \E path \in Paths(root) : LazyLoaded(path)

SpecLookup == InitLookup /\ [][NextLookup]_vars

\* The ids along a path, from the suite down.
RECURSIVE IdPath(_, _)
IdPath(this, path) ==
    <<getId(this)>> \o
    (IF path = <<>> THEN <<>> ELSE IdPath(this.tests[Head(path)], Tail(path)))

\* The node and all its descendants have selected = toggle.
RECURSIVE AllSelected(_, _)
AllSelected(this, toggle) ==
    /\ this.selected = toggle
    /\ \A i \in DOMAIN this.tests : AllSelected(this.tests[i], toggle)

\* One path leads into the other.
Within(path, top) ==
    /\ Len(path) >= Len(top)
    /\ SubSeq(path, 1, Len(top)) = top

\* C18: 'framework-select' selects with cascade: after it, the nugget the
\* identifiers lead to and every descendant of it, at every depth, have
\* selected = toggle, and the selection of no other node has changed.
C18_SelectCascades ==
    [][(/\ IsCall
        /\ call'.op = "framework-select"
        /\ call'.entities = "resolved"
        /\ call'.identifiers # <<>>)
          => /\ IdPath(root', call'.path) = call'.identifiers
             /\ AllSelected(NodeAt(root', call'.path), call'.toggle)
             /\ \A path \in Paths(root) :
                   ~Within(path, call'.path)
                      => NodeAt(root', path).selected
                           = NodeAt(root, path).selected]_vars

\* C18 witness: the suite has been selected, and with it the test nested in
\* its test b.
C18_Witness ==
    /\ call.op = "framework-select"
    /\ call.identifiers = <<"s">>
    /\ call.toggle
    /\ root.selected
    /\ Len(root.tests) = 2
    /\ root.tests[2].selected
    /\ Len(root.tests[2].tests) = 1
    /\ root.tests[2].tests[1].selected

\* The framework id or one of the identifiers names nothing in the tree.
Missing(tree, frameworkId, identifiers) ==
    \/ frameworkId \notin FrameworkIds
    \/ /\ identifiers # <<>>
       /\ \A path \in Paths(tree) : IdPath(tree, path) # identifiers

Handlers == {"test-get", "framework-select", "framework-toggle-child"}

\* C19: when the framework id or an identifier names nothing in the tree,
\* entities rejects; and 'test-get' is never rejected: it then resolves
\* with framework and nuggets null.
C19_MissingIsNotFound ==
    [][/\ (/\ IsCall
           /\ call'.op \in Handlers
           /\ Missing(root, call'.framework, call'.identifiers))
             => call'.entities = "rejected"
       /\ (IsCall /\ call'.op = "test-get")
             => /\ outcome' = "resolved"
                /\ Missing(root, call'.framework, call'.identifiers)
                      => reply' = NotFound]_vars

\* C19 witness: 'test-get' with the id of a test that its parent, which is
\* there, does not have; the answer is the one of not found.
C19_Witness ==
    /\ call.op = "test-get"
    /\ call.framework = "f"
    /\ call.identifiers = <<"s", "b", "z">>
    /\ call.entities = "rejected"
    /\ outcome = "resolved"
    /\ reply = NotFound

\* The lazy-load requests made in the step.
NewRequests ==
    SubSeq(lazy'.requests, Len(lazy.requests) + 1, Len(lazy'.requests))

\* C20: toggleExpanded without cascade on a node that is in the requested
\* state changes nothing and makes no lazy-load request; and every request
\* made, by the call or by entities, is for a node that is toggled on
\* while its children are not materialized; entities toggles no node that
\* is expanded.
C20_ToggleExpandedNoop ==
    [][/\ (/\ IsCall
           /\ call'.op = "toggleExpanded"
           /\ ~call'.cascade
           /\ NodeAt(root, call'.path).expanded = call'.toggle)
             => /\ root' = root
                /\ lazy' = lazy
       /\ IsCall => /\ Len(lazy'.requests) >= Len(lazy.requests)
                    /\ SubSeq(lazy'.requests, 1, Len(lazy.requests))
                         = lazy.requests
                    /\ lazy'.unloaded = lazy.unloaded
       /\ IsCall =>
            \A i \in DOMAIN NewRequests :
               LET asked == NewRequests[i]
               IN  /\ asked.path \in lazy.unloaded
                   /\ asked.id = getId(NodeAt(root, asked.path))
                   /\ IF call'.op = "toggleExpanded"
                      THEN /\ call'.toggle
                           /\ Within(asked.path, call'.path)
                           /\ NodeAt(root', asked.path).expanded
                           /\ ~call'.cascade
                                => ~NodeAt(root, asked.path).expanded
                      ELSE ~NodeAt(root, asked.path).expanded]_vars

\* C20 witness: a node whose children are still being loaded, expanded
\* already, has been toggled on again without cascade; the one request
\* made earlier is the only one.
C20_Witness ==
    /\ call.op = "toggleExpanded"
    /\ call.toggle
    /\ ~call.cascade
    /\ ops = 2
    /\ call.path \in lazy.unloaded
    /\ NodeAt(root, call.path).expanded
    /\ Len(lazy.requests) = 1
    /\ lazy.requests[1].path = call.path

\* ------------------------------------------------------------------------
\* Test.debrief: the `debriefed` event
\* ------------------------------------------------------------------------

\* debrief(result, cleanup), with what it does in order: the stamp of the
\* result, then, in the promise's executor, build, emit('debriefed') and
\* resolve; an exception of build leaves the executor at once and rejects
\* the promise.  `seen` is the node as a listener of the event finds it.
debrief(this, result, cleanup, at) ==
    IF ~result.object
    THEN [outcome |-> "threw", node |-> this, trace |-> <<>>,
          seen |-> <<>>]
    ELSE IF Throws(stamp(result, at))
    THEN [outcome |-> "rejected", node |-> this,
          trace |-> <<"stamp", "reject">>, seen |-> <<>>]
    ELSE [outcome |-> "resolved",
          node |-> build(this, stamp(result, at), cleanup, at),
          trace |-> <<"stamp", "build", "debriefed", "resolve">>,
          seen |-> <<build(this, stamp(result, at), cleanup, at)>>]

\* A call of debrief, with the events it emits.
DebriefEmits(result, cleanup) ==
    /\ ops < MaxOps
    /\ ops' = ops + 1
    /\ call' = Call("debrief", result, cleanup, now,
                    Repeats("debrief", result, cleanup))
    /\ LET done == debrief(root, result, cleanup, now)
       IN  /\ outcome' = done.outcome
           /\ root' = done.node
           /\ reply' = [kind |-> "events", trace |-> done.trace,
                        seen |-> done.seen]
    /\ UNCHANGED <<now, other, inflight, lazy>>
    /\ UNCHANGED desk

NextEvents ==
    \/ Tick
    \/ \E result \in TopFrags, cleanup \in BOOLEAN :
          DebriefEmits(result, cleanup)

SpecEvents == Init /\ [][NextEvents]_vars

\* The positions of a step in a trace.
Positions(trace, step) == {i \in DOMAIN trace : trace[i] = step}

\* When a call of debrief resolved, it emitted `debriefed` once, after
\* build and before resolve, and the listener found the node merged.
DebriefedInOrder ==
    (call.op = "debrief" /\ outcome = "resolved")
       => /\ Cardinality(Positions(reply.trace, "debriefed")) = 1
          /\ \A i \in Positions(reply.trace, "debriefed") :
                /\ \E j \in Positions(reply.trace, "build") : j < i
                /\ \E j \in Positions(reply.trace, "resolve") : i < j
          /\ reply.seen = <<root>>

\* C21: every call of debrief emits `debriefed` exactly once, after build
\* has merged the fragment and before the promise resolves.
C21_OneDebriefedEvent ==
    call.op = "debrief"
       => /\ Cardinality(Positions(reply.trace, "debriefed")) = 1
          /\ \A i \in Positions(reply.trace, "debriefed") :
                /\ \E j \in Positions(reply.trace, "build") : j < i
                /\ \E j \in Positions(reply.trace, "resolve") : i < j
          /\ reply.seen = <<root>>

\* ------------------------------------------------------------------------
\* Test.debrief, statement by statement, among other handlers
\* ------------------------------------------------------------------------

\* Results debriefed: of the tests of a run, and of the node alone.
AtomicFrags == RunFrags \cup {Frag("s", "passed", NoTime, <<>>)}

\* No call of debrief is under way.
Settled(whole, debriefs) ==
    [pc |-> "idle", result |-> Null, cleanup |-> FALSE, at |-> NoTime,
     before |-> whole, whole |-> whole, debriefs |-> debriefs]

\* Whether the statement the call has come to hands control back to the
\* event loop: debrief and build have no await, and build calls
\* debriefTests as a statement, so none does.
Yields_inBuild(pc) == pc = "status"

Yields(pc) == FALSE

\* A handler starts only when no other is running.
CanRun(pc) == pc = "idle" \/ Yields(pc)

InitAtomic ==
    /\ now = 1
    /\ \E result \in {r \in InitFrags : r.tests # <<>>} :
          /\ root = newTest(result, now)
          /\ call = Call("new", result, FALSE, now, FALSE)
          /\ inflight = Settled(newTest(result, now), 0)
    /\ ops = 0
    /\ outcome = "returned"
    /\ other = Blank
    /\ reply = NoReply
    /\ lazy = NoLazy
    /\ InitDesk

\* debrief is called: the result is stamped (line 162) and, in build, given
\* its status and stored as merged (lines 92, 93).
DebriefBegins(result, cleanup) ==
    /\ ops < MaxSteps
    /\ CanRun(inflight.pc)
    /\ ops' = ops + 1
    /\ LET amended == [stamp(result, now) EXCEPT
                          !.status = getRecursiveStatus(stamp(result, now))]
       IN  /\ root' = [root EXCEPT
                          !.result = mergeResults(root, amended, now)]
           /\ inflight' = [inflight EXCEPT
                              !.pc = "result", !.result = amended,
                              !.cleanup = cleanup, !.at = now,
                              !.before = root]
    /\ call' = Call("debrief", result, cleanup, now, FALSE)
    /\ outcome' = "pending"
    /\ UNCHANGED <<now, other, reply, lazy>>
    /\ UNCHANGED desk

\* build, line 94: the status of the result becomes the node's.
DebriefSetsStatus ==
    /\ inflight.pc = "result"
    /\ root' = updateStatus(root, OrIdle(inflight.result.status))
    /\ inflight' = [inflight EXCEPT !.pc = "status"]
    /\ UNCHANGED <<now, ops, call, outcome, other, reply, lazy>>
    /\ UNCHANGED desk

\* build, lines 95 to 97: the results of the children are debriefed.
DebriefMergesTests ==
    /\ inflight.pc = "status"
    /\ root' = IF inflight.result.tests # <<>>
               THEN debriefTests(root, inflight.result.tests,
                                 inflight.cleanup, inflight.at)
               ELSE root
    /\ inflight' = [inflight EXCEPT !.pc = "built"]
    /\ UNCHANGED <<now, ops, call, outcome, other, reply, lazy>>
    /\ UNCHANGED desk

\* debrief, lines 165 and 166: the event is emitted, the promise resolved,
\* and the call returns.
DebriefReturns ==
    /\ inflight.pc = "built"
    /\ inflight' = [Settled(root, inflight.debriefs + 1) EXCEPT
                       !.result = inflight.result,
                       !.cleanup = inflight.cleanup,
                       !.at = inflight.at,
                       !.before = inflight.before]
    /\ outcome' = "resolved"
    /\ UNCHANGED <<root, now, ops, call, other, reply, lazy>>
    /\ UNCHANGED desk

\* Another handler renders a node of the tree.
Observes(path) ==
    /\ CanRun(inflight.pc)
    /\ Render(path, "false")

NextAtomic ==
    \/ \E result \in AtomicFrags, cleanup \in BOOLEAN :
          DebriefBegins(result, cleanup)
    \/ DebriefSetsStatus
    \/ DebriefMergesTests
    \/ DebriefReturns
    \/ \E path \in Paths(root) : Observes(path)

SpecAtomic == InitAtomic /\ [][NextAtomic]_vars

MergeFrags ==
    {[Frag("s", status, first, <<>>) EXCEPT !.last = last] :
        status \in {"passed", NoStatus},
        first \in 0..MaxTime, last \in 0..MaxTime}

\* A node that has no result yet.
InitMerge ==
    /\ now \in 1..MaxTime
    /\ root = Blank
    /\ call = Call("none", Null, FALSE, now, FALSE)
    /\ ops = 0
    /\ outcome = "returned"
    /\ InitAround
    /\ InitDesk

\* this.result = this.mergeResults(result), as in build.
MergeResults(result) ==
    /\ ops < MaxOps
    /\ ops' = ops + 1
    /\ root' = [root EXCEPT !.result = mergeResults(root, result, now)]
    /\ reply' = [kind |-> "merged",
                 result |-> mergeResults(root, result, now)]
    /\ call' = Call("mergeResults", result, FALSE, now, FALSE)
    /\ outcome' = "returned"
    /\ UNCHANGED <<now, other, inflight, lazy>>
    /\ UNCHANGED desk

NextMerge ==
    \/ Tick
    \/ \E result \in MergeFrags : MergeResults(result)

SpecMerge == InitMerge /\ [][NextMerge]_vars

\* C23: a first-seen date the incoming result carries prevails, the result
\* being returned as it came; without one, the date is that of the node's
\* result when it has one, and the current time only otherwise; the other
\* stats of the incoming result are kept in every case.
C23_CarriedFirstPrevails ==
    [][(IsCall /\ call'.op = "mergeResults")
          => LET incoming == call'.frag
                 existing == root.result.first
                 merged == reply'.result
             IN  /\ incoming.first # NoTime => merged = incoming
                 /\ (incoming.first = NoTime /\ existing # NoTime)
                       => merged.first = existing
                 /\ (incoming.first = NoTime /\ existing = NoTime)
                       => merged.first = call'.at
                 /\ merged.last = incoming.last
                 /\ [merged EXCEPT !.first = NoTime]
                      = [incoming EXCEPT !.first = NoTime]]_vars

\* C23 witness: a node first seen at 2 has merged a result that carries the
\* first-seen date 1 and a last-run date: both dates are the carried ones.
C23_Witness ==
    /\ call.op = "mergeResults"
    /\ ops = 2
    /\ now = 2
    /\ call.frag.first = 1
    /\ call.frag.last = 2
    /\ reply.result = call.frag
    /\ root.result.first = 1

\* The node and all its descendants are collapsed.
RECURSIVE AllCollapsed(_)
AllCollapsed(this) ==
    /\ ~this.expanded
    /\ \A i \in DOMAIN this.tests : AllCollapsed(this.tests[i])

C25_PathResolvedInOrder ==
    [][(/\ IsCall
        /\ call'.op \in {"test-get", "framework-select"}
        /\ call'.entities = "resolved"
        /\ call'.identifiers # <<>>)
          => /\ Len(call'.nuggets) = Len(call'.identifiers)
             /\ call'.nuggets[1] = <<>>
             /\ \A i \in DOMAIN call'.nuggets :
                   /\ call'.nuggets[i] \in Paths(root)
                   /\ Len(call'.nuggets[i]) = i - 1
                   /\ i > 1 => Within(call'.nuggets[i], call'.nuggets[i - 1])
                   /\ IdPath(root, call'.nuggets[i])
                        = SubSeq(call'.identifiers, 1, i)
                   /\ NodeAt(root', call'.nuggets[i]).expanded
             /\ call'.path = call'.nuggets[Len(call'.nuggets)]
             /\ \A i, j \in DOMAIN NewRequests :
                   i < j => Len(NewRequests[i].path) < Len(NewRequests[j].path)
             /\ \A path \in Paths(root) :
                   (NodeAt(root', path).expanded /\ ~NodeAt(root, path).expanded)
                      => \E i \in DOMAIN call'.nuggets :
                            call'.nuggets[i] = path]_vars

\* C25 witness: the path suite, b, a has been resolved in a tree that was
\* all collapsed: three nuggets, all expanded, the test a of b collapsed
\* still under the suite.
C25_Witness ==
    /\ call.op = "test-get"
    /\ call.identifiers = <<"s", "b", "a">>
    /\ ops = 1
    /\ call.nuggets = <<<<>>, <<2>>, <<2, 1>>>>
    /\ root.expanded
    /\ root.tests[2].expanded
    /\ root.tests[2].tests[1].expanded
    /\ ~root.tests[1].expanded
    /\ Len(reply.nuggets) = 3

\* ------------------------------------------------------------------------
\* ApplicationWindow: the window, its project, and the renderer
\* ------------------------------------------------------------------------

\* Number of events (of the window, the projects, the renderer) handled.
MaxEvents == 5

\* Identifiers of projects.
ProjectIds == {"p1", "p2"}

NoProject == "null"

\* new ApplicationWindow(identifier), before the constructor's last lines:
\* not ready, no project; no Project object exists yet ("none"; a Project
\* is then "loading" until it emits `ready`).
NewWindow ==
    [open |-> TRUE, ready |-> FALSE, page |-> "none", project |-> NoProject,
     projects |-> [p \in ProjectIds |-> "none"], busy |-> {},
     started |-> 0, pending |-> {}, sent |-> <<>>, errors |-> 0,
     closed |-> FALSE, stopping |-> "no", quit |-> FALSE]

\* Project.isReady().
isReady(w, p) == w.projects[p] = "ready"

\* getProjectOptions(): the project's rendering, {} without a project.
getProjectOptions(w) ==
    IF w.project = NoProject
    THEN [project |-> NoProject, ready |-> FALSE]
    ELSE [project |-> w.project, ready |-> isReady(w, w.project)]

\* projectReady(), up to its await: reset() is called on the project the
\* window has at that moment; without a project, this.project!.reset()
\* throws and the promise of projectReady is rejected.
projectReady(w) ==
    IF w.project = NoProject
    THEN [w EXCEPT !.errors = @ + 1]
    ELSE [w EXCEPT !.started = @ + 1,
                   !.pending = @ \cup {[serial |-> w.started + 1,
                                        reset |-> w.project]}]

\* projectReady(), after the await: 'project-ready' is sent with the
\* options of the project the window has by then.
projectReadySends(w, awaited) ==
    [w EXCEPT !.pending = @ \ {awaited},
              !.sent = Append(@, [serial |-> awaited.serial,
                                  reset |-> awaited.reset,
                                  options |-> getProjectOptions(w),
                                  ready |-> w.ready,
                                  page |-> w.page])]

\* setProject(identifier): a new Project, with the listener of its `ready`.
setProject(w, identifier) ==
    [w EXCEPT !.project = identifier, !.projects[identifier] = "loading"]

\* The listener setProject registers on the project's `ready`.
onProjectReady(w) == IF ~w.ready THEN w ELSE projectReady(w)

\* onReady(), called when the page has finished loading.
onReady_flagOnly(w) == [w EXCEPT !.ready = TRUE]

onReady(w) ==
    IF w.project # NoProject /\ isReady(w, w.project)
    THEN projectReady([w EXCEPT !.ready = TRUE])
    ELSE [w EXCEPT !.ready = TRUE]

\* clear().
clear(w) == [w EXCEPT !.project = NoProject]

\* isBusy().
isBusy(w) == w.project # NoProject /\ w.project \in w.busy

\* An event handled by the main process.
WindowEvent(op, project) == [op |-> op, project |-> project]

\* ApplicationWindow.init(identifier): the constructor sets the project if
\* it is given one, and starts loading the page.
InitWindow ==
    /\ \E identifier \in {NoProject, "p1"} :
          /\ window = [(IF identifier = NoProject
                        THEN NewWindow
                        ELSE setProject(NewWindow, identifier))
                       EXCEPT !.page = "loading"]
          /\ call = WindowEvent("init", identifier)
    /\ now = 1
    /\ ops = 0
    /\ outcome = "returned"
    /\ root = Blank
    /\ InitAround
    /\ store = NoStore

\* What an event of the window leaves as it is.
beside == <<root, now, other, inflight, reply, lazy, store>>

\* webContents 'did-finish-load'.
DidFinishLoad ==
    /\ ops < MaxEvents
    /\ ~window.closed
    /\ window.page = "loading"
    /\ ops' = ops + 1
    /\ window' = onReady([window EXCEPT !.page = "loaded"])
    /\ call' = WindowEvent("did-finish-load", window.project)
    /\ outcome' = "returned"
    /\ UNCHANGED beside

\* reload(): the renderer loads its page again.
Reload ==
    /\ ops < MaxEvents
    /\ ~window.closed
    /\ window.page = "loaded"
    /\ ops' = ops + 1
    /\ window' = [window EXCEPT !.page = "loading"]
    /\ call' = WindowEvent("reload", window.project)
    /\ outcome' = "returned"
    /\ UNCHANGED beside

\* A project that was created emits `ready`; its listener runs.
ProjectEmitsReady(p) ==
    /\ ops < MaxEvents
    /\ ~window.closed
    /\ window.projects[p] = "loading"
    /\ ops' = ops + 1
    /\ window' = onProjectReady([window EXCEPT !.projects[p] = "ready"])
    /\ call' = WindowEvent("ready", p)
    /\ outcome' = "returned"
    /\ UNCHANGED beside

\* The window's project starts or ends a run.
ProjectRuns(busy) ==
    /\ ops < MaxEvents
    /\ ~window.closed
    /\ window.project # NoProject
    /\ isBusy(window) # busy
    /\ ops' = ops + 1
    /\ window' = [window EXCEPT
                     !.busy = IF busy THEN @ \cup {window.project}
                              ELSE @ \ {window.project}]
    /\ call' = WindowEvent("run", window.project)
    /\ outcome' = "returned"
    /\ UNCHANGED beside

\* reset() of a project has settled: projectReady goes on after its await.
ResetSettles(awaited) ==
    /\ awaited \in window.pending
    /\ window' = projectReadySends(window, awaited)
    /\ UNCHANGED <<ops, call, outcome>>
    /\ UNCHANGED beside

\* The listener of the window's 'closed' that init registers, up to its
\* await: a busy window awaits the stop of its project, another quits.
onClosed(w) ==
    IF isBusy(w)
    THEN [w EXCEPT !.closed = TRUE, !.stopping = "awaited"]
    ELSE [w EXCEPT !.closed = TRUE, !.quit = TRUE]

\* The listener after its await: a rejection of stop() is caught, and
\* app.quit() is called in either case.
onStopSettled_uncaught(w, resolved) ==
    [w EXCEPT !.stopping = IF resolved THEN "resolved" ELSE "rejected",
              !.quit = resolved]

onStopSettled(w, resolved) ==
    [w EXCEPT !.stopping = IF resolved THEN "resolved" ELSE "rejected",
              !.quit = TRUE]

\* The window is closed.
Closed ==
    /\ ops < MaxEvents
    /\ ~window.closed
    /\ ops' = ops + 1
    /\ window' = onClosed(window)
    /\ call' = WindowEvent("closed", window.project)
    /\ outcome' = "returned"
    /\ UNCHANGED beside

\* stop() of the project settles, resolved or rejected.
StopSettles(resolved) ==
    /\ window.stopping = "awaited"
    /\ window' = onStopSettled(window, resolved)
    /\ UNCHANGED <<ops, call, outcome>>
    /\ UNCHANGED beside

NextWindow ==
    \/ DidFinishLoad
    \/ Reload
    \/ \E p \in ProjectIds : ProjectEmitsReady(p)
    \/ \E busy \in BOOLEAN : ProjectRuns(busy)
    \/ \E awaited \in window.pending : ResetSettles(awaited)
    \/ Closed
    \/ \E resolved \in BOOLEAN : StopSettles(resolved)

\* Every reset() and every stop() that is awaited settles at some time.
SpecWindow ==
    /\ InitWindow
    /\ [][NextWindow]_vars
    /\ \A k \in 1..MaxEvents :
          WF_vars(\E awaited \in window.pending :
                     awaited.serial = k /\ ResetSettles(awaited))
    /\ WF_vars(\E resolved \in BOOLEAN : StopSettles(resolved))

\* The serials of the 'project-ready' messages sent.
SentSerials == {window.sent[i].serial : i \in DOMAIN window.sent}

C28_QuitAfterClose ==
    /\ [][/\ (IsCall /\ call'.op = "closed")
               => /\ window'.closed
                  /\ isBusy(window) => (~window'.quit
                                          /\ window'.stopping = "awaited")
                  /\ ~isBusy(window) => window'.quit
          /\ (window'.quit /\ ~window.quit /\ window.closed)
               => /\ window.stopping = "awaited"
                  /\ window'.stopping \in {"resolved", "rejected"}
          /\ window'.quit => window'.closed
          /\ window.quit => window'.quit]_vars
    /\ window.closed ~> window.quit

\* C28 witness: a busy window was closed, the stop of its project failed,
\* and the application has quit.
C28_Witness ==
    /\ window.closed
    /\ window.project = "p1"
    /\ window.project \in window.busy
    /\ window.stopping = "rejected"
    /\ window.quit

\* ------------------------------------------------------------------------
\* ApplicationWindow: switching projects
\* ------------------------------------------------------------------------

\* ipcMain.on('project-switch'): with an identifier the window is given a
\* new project, without one it is cleared; the project it had is stopped.
\* The listener of the earlier project's `ready` stays registered.
projectSwitch(w, identifier) ==
    LET switched == IF identifier # NoProject
                    THEN setProject(w, identifier)
                    ELSE clear(w)
    IN  [switched EXCEPT !.busy = @ \ {w.project}]

\* The renderer switches to a project not opened before, or to none.
ProjectSwitch(identifier) ==
    /\ ops < MaxEvents
    /\ ~window.closed
    /\ identifier # NoProject => window.projects[identifier] = "none"
    /\ ops' = ops + 1
    /\ window' = projectSwitch(window, identifier)
    /\ call' = WindowEvent("project-switch", identifier)
    /\ outcome' = "returned"
    /\ UNCHANGED beside

NextSwitch ==
    \/ NextWindow
    \/ \E identifier \in ProjectIds \cup {NoProject} :
          ProjectSwitch(identifier)

SpecSwitch == InitWindow /\ [][NextSwitch]_vars

\* C27: projectReady never runs without a project, and the project it
\* resets and announces is one that is ready.
C27_ProjectReadyHasProject ==
    /\ window.errors = 0
    /\ \A awaited \in window.pending : isReady(window, awaited.reset)
    /\ \A i \in DOMAIN window.sent :
          /\ window.sent[i].options.project # NoProject
          /\ window.sent[i].options.ready

\* ---------------------------------------------------------------------
\* The renderer's modal store (store/modules/modal.js).
\* ---------------------------------------------------------------------

\* How many modals are opened in one run.
MaxModals == 3

\* The callback of a payload: no such key, a falsy value, a function that
\* returns, a function that throws.
Callbacks == {"absent", "null", "returns", "throws"}

\* The payloads of open; serial tells one opened modal from another.
Payloads(serial) == {[serial |-> serial, callback |-> c] : c \in Callbacks}

\* pop() of an empty array gives undefined.
Undefined == [serial |-> 0, callback |-> "absent"]

NoAction == [op |-> "none", completed |-> TRUE]

\* state, the class list of document.body (body is TRUE when it carries
\* 'modal-open'), the callbacks called so far, and the last action.
NewStore ==
    [modals |-> <<>>, body |-> FALSE, called |-> <<>>, opened |-> 0,
     last |-> NoAction]

ADD(state, payload) ==
    [state EXCEPT !.modals = Append(@, payload)]

\* _has(modal, 'callback') && modal.callback
hasCallback(modal) == modal.callback \notin {"absent", "null"}

REMOVE_shift(state) ==
    LET modal == IF state.modals = <<>> THEN Undefined
                 ELSE Head(state.modals)
        rest == IF state.modals = <<>> THEN <<>> ELSE Tail(state.modals)
        popped == [state EXCEPT !.modals = rest]
    IN  IF hasCallback(modal)
        THEN [state |-> [popped EXCEPT !.called = Append(@, modal.serial)],
              threw |-> modal.callback = "throws"]
        ELSE [state |-> popped, threw |-> FALSE]

\* The mutation pops, then calls the callback; threw tells that the call
\* threw, and with it the mutation.
REMOVE(state) ==
    LET n == Len(state.modals)
        modal == IF n = 0 THEN Undefined ELSE state.modals[n]
        rest == IF n = 0 THEN <<>> ELSE SubSeq(state.modals, 1, n - 1)
        popped == [state EXCEPT !.modals = rest]
    IN  IF hasCallback(modal)
        THEN [state |-> [popped EXCEPT !.called = Append(@, modal.serial)],
              threw |-> modal.callback = "throws"]
        ELSE [state |-> popped, threw |-> FALSE]

CLEAR(state) ==
    [state EXCEPT !.modals = <<>>]

modal_change_addOnly(state) ==
    IF Len(state.modals) # 0
    THEN [state EXCEPT !.body = TRUE]
    ELSE state

modal_change(state) ==
    IF Len(state.modals) # 0
    THEN [state EXCEPT !.body = TRUE]
    ELSE [state EXCEPT !.body = FALSE]

hasModals(state) == Len(state.modals) > 0

Done(state, op, completed) ==
    [state EXCEPT !.last = [op |-> op, completed |-> completed]]

modal_open(state, payload) ==
    Done(modal_change(ADD([state EXCEPT !.opened = @ + 1], payload)),
         "open", TRUE)

\* A commit that throws leaves the action before it dispatches change.
modal_close(state) ==
    LET removed == REMOVE(state)
    IN  IF removed.threw
        THEN Done(removed.state, "close", FALSE)
        ELSE Done(modal_change(removed.state), "close", TRUE)

modal_clear(state) ==
    Done(modal_change(CLEAR(state)), "clear", TRUE)

InitModal ==
    /\ store = NewStore
    /\ window = NoWindow
    /\ now = 1
    /\ ops = 0
    /\ call = [op |-> "none"]
    /\ outcome = "returned"
    /\ root = Blank
    /\ InitAround

\* What an action of the modal store leaves as it is.
behind == <<root, now, ops, call, outcome, other, inflight, reply, lazy, window>>

Open(payload) ==
    /\ store.opened < MaxModals
    /\ store' = modal_open(store, payload)
    /\ UNCHANGED behind

Close ==
    /\ store' = modal_close(store)
    /\ UNCHANGED behind

Clear ==
    /\ store' = modal_clear(store)
    /\ UNCHANGED behind

NextModal ==
    \/ \E payload \in Payloads(store.opened + 1) : Open(payload)
    \/ Close
    \/ Clear

SpecModal == InitModal /\ [][NextModal]_vars

Last(modals) == modals[Len(modals)]

AllButLast(modals) == SubSeq(modals, 1, Len(modals) - 1)

\* C29: close removes the modal opened last among those still open and
\* calls its callback, when it has one, and no other; close on an empty
\* stack removes nothing and calls nothing; clear empties the stack and
\* calls nothing; no modal's callback is ever called twice.
C29_CloseIsPop ==
    /\ [][/\ (store'.last.op = "close" /\ store.modals # <<>>) =>
                /\ store'.modals = AllButLast(store.modals)
                /\ \A i \in 1..Len(store.modals) - 1 :
                      store.modals[i].serial < Last(store.modals).serial
                /\ store'.called =
                      IF hasCallback(Last(store.modals))
                      THEN Append(store.called, Last(store.modals).serial)
                      ELSE store.called
          /\ (store'.last.op = "close" /\ store.modals = <<>>) =>
                /\ store'.modals = <<>>
                /\ store'.called = store.called
          /\ store'.last.op = "clear" =>
                /\ store'.modals = <<>>
                /\ store'.called = store.called
          /\ store'.last.op = "open" =>
                /\ AllButLast(store'.modals) = store.modals
                /\ store'.called = store.called]_vars
    /\ [](\A i, j \in DOMAIN store.called :
             store.called[i] = store.called[j] => i = j)

\* A close has just called the callback of the modal on top, and an
\* earlier modal is still open.
C29_Witness ==
    /\ store.last.op = "close"
    /\ store.modals # <<>>
    /\ store.called # <<>>
    /\ store.called[Len(store.called)] > Last(store.modals).serial

\* C30: after every open, close or clear that completed, document.body
\* carries 'modal-open' exactly when the stack is not empty, and hasModals
\* is true exactly then.
C30_BodyClassTracksStack ==
    (store.last.op # "none" /\ store.last.completed) =>
        /\ store.body <=> store.modals # <<>>
        /\ hasModals(store) <=> store.body

\* A close that completed has emptied a stack and taken the class away.
C30_Witness ==
    /\ store.last.op = "close"
    /\ store.last.completed
    /\ store.opened > 0
    /\ store.modals = <<>>
    /\ ~store.body
    /\ ~hasModals(store)

\* ---------------------------------------------------------------------
\* SSH connections (lib/process/ssh.ts).
\* ---------------------------------------------------------------------

\* An object is a function over its own keys; {} has none.
EmptyObject == [f \in {} |-> ""]

\* The connection argument left out.
NoConnection == [undefined |-> TRUE]

isUndefined(value) == "undefined" \in DOMAIN value

SSH_defaults ==
    [host |-> "",
     user |-> "",
     options |->
        [BatchMode |-> "yes",
         Compression |-> "yes",
         DSAAuthentication |-> "yes",
         LogLevel |-> "FATAL",
         StrictHostKeyChecking |-> "no",
         UserKnownHostsFile |-> "/dev/null",
         ForwardAgent |-> "yes",
         IdentitiesOnly |-> "yes",
         ControlMaster |-> "no",
         ExitOnForwardFailure |-> "yes",
         ConnectTimeout |-> 10]]

\* The keys of object that are in keys.
Pick(object, keys) == [f \in keys |-> object[f]]

\* Values a caller gives, all different from the defaults.
GivenOptions == [BatchMode |-> "no", LogLevel |-> "ERROR", ConnectTimeout |-> 5]

GivenDetails == [user |-> "deploy", port |-> 22, Identity |-> "id_rsa"]

Hosts == {"", "example.org"}

\* The connections of type SSHOptions: host, any of user, port and
\* Identity, and options left out or set in part.
SSHOptions ==
    LET details == {Spread([host |-> h], Pick(GivenDetails, given)) :
                       h \in Hosts, given \in SUBSET DOMAIN GivenDetails}
        options == {Pick(GivenOptions, given) :
                       given \in SUBSET DOMAIN GivenOptions}
    IN  details \cup {Spread(d, [options |-> o]) : d \in details, o \in options}

Connections == {NoConnection} \cup SSHOptions

\* { ...value }: spreading undefined adds no key.
SpreadOf(value) == IF isUndefined(value) THEN EmptyObject ELSE value

\* value.options || {}
OptionsOrEmpty(value) ==
    IF "options" \in DOMAIN value THEN value.options ELSE EmptyObject

\* new SSH(connection): the property access connection.options throws a
\* TypeError when connection is undefined; the assignment of the defaults
\* before it does not end the constructor.
SSH_constructor(connection) ==
    IF isUndefined(connection)
    THEN [threw |-> TRUE, connection |-> SSH_defaults]
    ELSE [threw |-> FALSE,
          connection |->
             Spread(Spread(SSH_defaults, SpreadOf(connection)),
                    [options |-> Spread(SSH_defaults.options,
                                        OptionsOrEmpty(connection))])]

InitSSH ==
    /\ \E connection \in Connections :
          call = [op |-> "new SSH", connection |-> connection]
    /\ outcome = "none"
    /\ ops = 0
    /\ now = 1
    /\ root = Blank
    /\ InitAround
    /\ InitDesk

Construct ==
    /\ ops = 0
    /\ ops' = 1
    /\ LET made == SSH_constructor(call.connection)
       IN  /\ outcome' = IF made.threw THEN "threw" ELSE "returned"
           /\ reply' = IF made.threw THEN NoReply
                       ELSE [kind |-> "ssh", connection |-> made.connection]
    /\ UNCHANGED <<call, root, now, other, inflight, lazy, window, store>>

NextSSH == Construct

SpecSSH == InitSSH /\ [][NextSSH]_vars

\* What the defaults and a connection given in part should make: each key
\* of the connection, each option it sets, and the default everywhere else.
Overridden(connection) ==
    [k \in DOMAIN SSH_defaults \cup DOMAIN connection |->
        IF k = "options"
        THEN [o \in DOMAIN SSH_defaults.options |->
                 IF "options" \in DOMAIN connection
                    /\ o \in DOMAIN connection.options
                 THEN connection.options[o]
                 ELSE SSH_defaults.options[o]]
        ELSE IF k \in DOMAIN connection THEN connection[k]
        ELSE SSH_defaults[k]]

\* A connection that is given is merged over the defaults key by key, its
\* options over the default options.
GivenOverrides ==
    (ops = 1 /\ ~isUndefined(call.connection)) =>
        /\ outcome = "returned"
        /\ reply.connection = Overridden(call.connection)

\* C31: constructing SSH returns; without a connection it yields the
\* defaults, with one it yields the connection's keys and options over
\* the defaults.
C31_ConstructWithDefaults ==
    ops = 1 =>
        /\ outcome = "returned"
        /\ reply.connection =
              IF isUndefined(call.connection) THEN SSH_defaults
              ELSE Overridden(call.connection)

====
